---- MODULE Spec2Model ----
(***************************************************************************)
(* The /api/proxy/{*path} forwarding handler of azure-static-web-app-sample.*)
(*                                                                         *)
(* The repository holds three proxyHandler bodies:                         *)
(*   "js1"  src/api/proxy/index.js lines 9-82                               *)
(*   "js2"  src/api/proxy/index.js lines 107-179                            *)
(*   "ts"   src/unnamed/part_000   lines 7-58                               *)
(* One behaviour of the model is one invocation of one of them.            *)
(*                                                                         *)
(* Strings that the code concatenates, encodes or tests for emptiness are  *)
(* sequences of one-character strings.  Bodies on the wire are sequences   *)
(* of bytes; the text the handler holds after request.text()/res.text() is *)
(* a sequence of code points.                                              *)
(***************************************************************************)
EXTENDS Integers, Sequences, FiniteSets, TLC

\* ------------------------------------------------------------- bounds
\* longest query (number of key/value pairs) of an inbound request
MaxQuery == 1
\* longest inbound body and longest upstream body, in bytes
MaxBody == 1

\* ------------------------------------------------------------- values
\* JavaScript's undefined: an unset environment variable, a missing route
\* parameter, a header that is absent
Undefined == <<"undefined">>

\* what a template literal makes of a value: `${undefined}` is "undefined"
ToStr(v) == IF v = Undefined THEN <<"u","n","d","e","f","i","n","e","d">> ELSE v

\* JavaScript truthiness of a string-or-undefined value
Truthy(v) == v # Undefined /\ v # <<>>

\* a || b
OrElse(a, b) == IF Truthy(a) THEN a ELSE b

Variants == {"js1", "js2", "ts"}

\* methods the route is registered for
Methods == {"GET", "POST", "PUT", "DELETE", "PATCH", "HEAD"}

\* an absolute backend URL, "h:b"
BaseUrl == <<"h",":","b">>
\* the values process.env.VITE_BACKEND_BASE_URL can have
BaseUrlValues == {Undefined, <<>>, BaseUrl}

\* the configured shared secret
Secret == <<"s">>
\* the values process.env.VITE_X_FUNCTIONS_KEY can have
KeyValues == {Undefined, <<>>, Secret}

\* the values of request.params.path: no capture, or "a/b"
PathValues == {Undefined, <<"a","/","b">>}

ApplicationJson == <<"j">>

\* ------------------------------------------------------------- query
\* key/value pairs a client may send; the second needs escaping throughout
QueryPairs == { [k |-> <<"k">>, v |-> <<"v">>],
                [k |-> <<" ">>, v |-> <<"&","=","+","%">>] }

RECURSIVE SeqsUpTo(_, _)
SeqsUpTo(S, n) ==
    IF n = 0 THEN { <<>> }
    ELSE LET shorter == SeqsUpTo(S, n - 1)
         IN  shorter \cup { Append(s, x) : s \in shorter, x \in S }

\* application/x-www-form-urlencoded byte serializer, one character
EncChar(c) ==
    CASE c = " " -> <<"+">>
      [] c = "&" -> <<"%","2","6">>
      [] c = "=" -> <<"%","3","D">>
      [] c = "+" -> <<"%","2","B">>
      [] c = "%" -> <<"%","2","5">>
      [] OTHER   -> <<c>>

RECURSIVE EncStr(_)
EncStr(s) == IF s = <<>> THEN <<>> ELSE EncChar(Head(s)) \o EncStr(Tail(s))

\* URLSearchParams.prototype.toString(): k=v pairs joined by "&"
RECURSIVE SearchParamsToString(_)
SearchParamsToString(q) ==
    IF q = <<>> THEN <<>>
    ELSE EncStr(q[1].k) \o <<"=">> \o EncStr(q[1].v)
         \o (IF Len(q) > 1 THEN <<"&">> \o SearchParamsToString(Tail(q)) ELSE <<>>)

\* the two hex digits of a percent escape
HexChar(a, b) ==
    CASE a = "2" /\ b = "6" -> "&"
      [] a = "3" /\ b = "D" -> "="
      [] a = "2" /\ b = "B" -> "+"
      [] a = "2" /\ b = "5" -> "%"
      [] OTHER -> "?"

IsEscape(s) ==
    /\ Len(s) >= 3
    /\ s[1] = "%"
    /\ <<s[2], s[3]>> \in { <<"2","6">>, <<"3","D">>, <<"2","B">>, <<"2","5">> }

\* urlencoded parser, one name or value: "+" is a space, %XX is a byte
RECURSIVE DecStr(_)
DecStr(s) ==
    IF s = <<>> THEN <<>>
    ELSE IF IsEscape(s) THEN <<HexChar(s[2], s[3])>> \o DecStr(SubSeq(s, 4, Len(s)))
    ELSE IF s[1] = "+" THEN <<" ">> \o DecStr(Tail(s))
    ELSE <<s[1]>> \o DecStr(Tail(s))

\* index of the first c in s, 0 when there is none
RECURSIVE IndexFrom(_, _, _)
IndexFrom(s, c, i) ==
    IF i > Len(s) THEN 0 ELSE IF s[i] = c THEN i ELSE IndexFrom(s, c, i + 1)
IndexOf(s, c) == IndexFrom(s, c, 1)

RECURSIVE Split(_, _)
Split(s, c) ==
    LET i == IndexOf(s, c)
    IN  IF i = 0 THEN <<s>>
        ELSE <<SubSeq(s, 1, i - 1)>> \o Split(SubSeq(s, i + 1, Len(s)), c)

ParsePair(piece) ==
    LET i == IndexOf(piece, "=")
    IN  IF i = 0 THEN [k |-> DecStr(piece), v |-> <<>>]
        ELSE [k |-> DecStr(SubSeq(piece, 1, i - 1)),
              v |-> DecStr(SubSeq(piece, i + 1, Len(piece)))]

RECURSIVE ParsePieces(_)
ParsePieces(ps) ==
    IF ps = <<>> THEN <<>>
    ELSE IF Head(ps) = <<>> THEN ParsePieces(Tail(ps))
    ELSE <<ParsePair(Head(ps))>> \o ParsePieces(Tail(ps))

\* urlencoded parser: what the backend reads from a query string
ParseQuery(s) == ParsePieces(Split(s, "&"))

\* the part of a URL after its first "?" (Undefined when it has none)
QueryPortion(url) ==
    LET i == IndexOf(url, "?")
    IN  IF i = 0 THEN Undefined ELSE SubSeq(url, i + 1, Len(url))

\* ------------------------------------------------------------- bodies
\* bytes a body is made of: "A", and 0xFF, which no UTF-8 text contains
Bytes == {65, 255}

\* Body.text(): UTF-8 decode, an invalid byte becomes U+FFFD
RECURSIVE Utf8Decode(_)
Utf8Decode(bs) ==
    IF bs = <<>> THEN <<>>
    ELSE (IF Head(bs) < 128 THEN <<Head(bs)>> ELSE <<65533>>) \o Utf8Decode(Tail(bs))

\* a string body put on the wire: UTF-8 encode
RECURSIVE Utf8Encode(_)
Utf8Encode(cs) ==
    IF cs = <<>> THEN <<>>
    ELSE (IF Head(cs) < 128 THEN <<Head(cs)>> ELSE <<239, 191, 189>>)
         \o Utf8Encode(Tail(cs))

\* ------------------------------------------------------------- headers
\* header lines a client may send, as written on the wire
WireHeaderLines == { [name |-> "Host",            value |-> <<"p">>],
                     [name |-> "X-Functions-Key", value |-> <<"e">>],
                     [name |-> "x-functions-key", value |-> <<"f">>],
                     [name |-> "Accept",          value |-> <<"a">>] }

\* String.prototype.toLowerCase on the header names in use
Lower(name) ==
    CASE name \in {"Host", "HOST", "host"} -> "host"
      [] name \in {"X-Functions-Key", "x-functions-key"} -> "x-functions-key"
      [] name \in {"Accept", "accept"} -> "accept"
      [] name \in {"Content-Type", "content-type"} -> "content-type"
      [] OTHER -> name

\* the order Headers keeps the values of one name in: as sent, here the
\* mixed-case line before the lower-case one
CombinedValue(lines, n) ==
    LET vs == { l \in lines : Lower(l.name) = n }
    IN  IF Cardinality(vs) = 1 THEN (CHOOSE l \in vs : TRUE).value
        ELSE (CHOOSE l \in vs : l.name # n).value \o <<",", " ">>
             \o (CHOOSE l \in vs : l.name = n).value

\* request.headers: the Headers object of the inbound request; its entries()
\* are lower-cased names with the values of equal names joined by ", "
HeadersOf(lines) ==
    [ n \in { Lower(l.name) : l \in lines } |-> CombinedValue(lines, n) ]

\* obj[key] = value
SetKey(obj, key, value) ==
    [ k \in DOMAIN obj \cup {key} |-> IF k = key THEN value ELSE obj[k] ]

\* the fixed header object of js1 and ts
FixedHeaders(key) ==
    [ k \in {"Content-Type", "x-functions-key"} |->
        IF k = "Content-Type" THEN ApplicationJson ELSE OrElse(key, <<>>) ]

\* the loop of js2 over request.headers.entries(): every header but host
CopyHeaders(reqHeaders) ==
    [ k \in { n \in DOMAIN reqHeaders : Lower(n) # "host" } |-> reqHeaders[k] ]

\* ForwardHeaders with the key only added when the client sent none
ForwardHeadersKeepClient(reqHeaders, key) ==
    IF "x-functions-key" \in DOMAIN reqHeaders
    THEN CopyHeaders(reqHeaders)
    ELSE SetKey(CopyHeaders(reqHeaders), "x-functions-key", key)

\* the header object js2 hands to fetch
ForwardHeaders(reqHeaders, key) ==
    SetKey(CopyHeaders(reqHeaders), "x-functions-key", key)

\* ------------------------------------------------------------- state
VARIABLES
    variant,     \* which proxyHandler serves the request
    env,         \* process.env
    request,     \* the inbound request: [method, path, query, lines, body]
    pc,          \* where the handler is: start, read_body, fetch, res_text,
                 \*   done (it returned), fault (its promise rejected)
    backendUrl,  \* const backendUrl
    headers,     \* const headers
    body,        \* const body: undefined, or the text of the inbound body
    calls,       \* how many times fetch was called
    outbound,    \* the arguments of the last fetch call, body as sent
    res,         \* the upstream response fetch resolved with
    rejection,   \* the await that rejected, and the error's message
    response     \* what the handler returned

vars == <<variant, env, request, pc, backendUrl, headers, body, calls,
          outbound, res, rejection, response>>

NoHeaders == [ k \in {} |-> <<>> ]
NoBody == [present |-> FALSE, data |-> <<>>]
SomeBody(d) == [present |-> TRUE, data |-> d]

NoRequest == [url |-> <<>>, method |-> "", headers |-> NoHeaders, body |-> NoBody]
NoRes == [status |-> 0, contentType |-> Undefined, body |-> <<>>]
\* a JSON payload with no field set: 0, "", FALSE and Undefined are absent
NoPayload == [statusCode |-> 0, error |-> "", message |-> "", detail |-> FALSE,
              stack |-> FALSE, backendUrl |-> Undefined]
NoRejection == [at |-> "none", message |-> ""]
NoResponse == [status |-> 0, contentType |-> Undefined, kind |-> "none",
               text |-> <<>>, payload |-> NoPayload]

\* the inbound requests the runtime can hand to the handler; request.query
\* is always a URLSearchParams object, possibly empty
Requests ==
    [ method : Methods,
      path   : PathValues,
      query  : [defined : {TRUE}, pairs : SeqsUpTo(QueryPairs, MaxQuery)],
      lines  : SUBSET WireHeaderLines,
      body   : SeqsUpTo(Bytes, MaxBody) ]

\* the upstream responses a backend can give
UpstreamStatus == {200, 404}
UpstreamContentTypes == {Undefined, <<>>, <<"t">>}
UpstreamResponses ==
    [ status : UpstreamStatus,
      contentType : UpstreamContentTypes,
      body : SeqsUpTo(Bytes, MaxBody) ]

Init ==
    /\ variant \in Variants
    /\ env \in [VITE_BACKEND_BASE_URL : BaseUrlValues,
              VITE_X_FUNCTIONS_KEY : KeyValues]
    /\ request \in Requests
    /\ pc = "start"
    /\ backendUrl = Undefined
    /\ headers = NoHeaders
    /\ body = NoBody
    /\ calls = 0
    /\ outbound = NoRequest
    /\ res = NoRes
    /\ rejection = NoRejection
    /\ response = NoResponse

\* ------------------------------------------------------------- handler
\* const backendBase = process.env.VITE_BACKEND_BASE_URL
backendBase == env.VITE_BACKEND_BASE_URL

\* process.env.VITE_X_FUNCTIONS_KEY, before any default
xKey == env.VITE_X_FUNCTIONS_KEY

\* const path = request.params.path || ""
path(req) == OrElse(req.path, <<>>)

\* const query = request.query ? `?${new URLSearchParams(...).toString()}` : ""
query(req) ==
    IF req.query.defined THEN <<"?">> \o SearchParamsToString(req.query.pairs)
    ELSE <<>>

\* `${backendBase}/${path}${query}`
BackendUrl(base, req) == ToStr(base) \o <<"/">> \o path(req) \o query(req)

\* fetch resolves a URL only when it is absolute: it has a scheme
UrlValid(url) == Len(url) >= 2 /\ url[1] = "h" /\ url[2] = ":"

\* a returned { status, headers, jsonBody }
JsonResponse(status, payload) ==
    [status |-> status, contentType |-> ApplicationJson, kind |-> "jsonBody",
     text |-> <<>>, payload |-> payload]

createConfigErrorResponse(message) ==
    JsonResponse(500, [statusCode |-> 500, error |-> "Configuration Error",
                       message |-> message, detail |-> TRUE,
                       stack |-> FALSE, backendUrl |-> Undefined])

\* js1's answer when no backend is configured: 200 and a greeting; the body
\* is the JSON text of the payload
SampleResponse ==
    [status |-> 200, contentType |-> ApplicationJson, kind |-> "body",
     text |-> <<>>,
     payload |-> [NoPayload EXCEPT
                    !.message = "Hello from proxy! Backend not configured."]]

\* the catch block of each handler
CatchResponse(v, message, url) ==
    IF v = "js2"
    THEN JsonResponse(502, [statusCode |-> 502, error |-> "Proxy Connection Error",
                            message |-> message, detail |-> FALSE,
                            stack |-> FALSE, backendUrl |-> url])
    ELSE JsonResponse(500, [statusCode |-> 0, error |-> "Internal proxy error",
                            message |-> message, detail |-> FALSE,
                            stack |-> TRUE, backendUrl |-> url])

\* the handler returns r
Return(r) ==
    /\ response' = r
    /\ pc' = "done"

\* from the URL and the header object to the first await: GET and HEAD go to
\* fetch with body undefined, every other method awaits request.text()
Forward(url, hdrs) ==
    /\ backendUrl' = url
    /\ headers' = hdrs
    /\ pc' = IF request.method \in {"GET", "HEAD"} THEN "fetch" ELSE "read_body"
    /\ UNCHANGED <<variant, env, request, body, calls, outbound, res,
                   rejection, response>>

StartJs1 ==
    /\ pc = "start"
    /\ variant = "js1"
    /\ IF ~Truthy(backendBase)
       THEN /\ Return(SampleResponse)
            /\ UNCHANGED <<variant, env, request, backendUrl, headers, body,
                           calls, outbound, res, rejection>>
       ELSE Forward(BackendUrl(backendBase, request), FixedHeaders(xKey))

StartJs2 ==
    /\ pc = "start"
    /\ variant = "js2"
    /\ IF ~Truthy(backendBase)
       THEN /\ Return(createConfigErrorResponse("VITE_BACKEND_BASE_URL is not set."))
            /\ UNCHANGED <<variant, env, request, backendUrl, headers, body,
                           calls, outbound, res, rejection>>
       ELSE IF ~Truthy(xKey)
       THEN /\ Return(createConfigErrorResponse("VITE_X_FUNCTIONS_KEY is not set."))
            /\ UNCHANGED <<variant, env, request, backendUrl, headers, body,
                           calls, outbound, res, rejection>>
       ELSE Forward(BackendUrl(backendBase, request),
                    ForwardHeaders(HeadersOf(request.lines), xKey))

StartTs ==
    /\ pc = "start"
    /\ variant = "ts"
    /\ Forward(BackendUrl(backendBase, request), FixedHeaders(xKey))

\* await request.text() resolves
ReadBodyResolve ==
    /\ pc = "read_body"
    /\ body' = SomeBody(Utf8Decode(request.body))
    /\ pc' = "fetch"
    /\ UNCHANGED <<variant, env, request, backendUrl, headers, calls, outbound,
                   res, rejection, response>>

\* await request.text() rejects: the await is outside the try block, so the
\* handler's promise rejects
ReadBodyReject ==
    /\ pc = "read_body"
    /\ pc' = "fault"
    /\ rejection' = [at |-> "request.text", message |-> "Body is unusable"]
    /\ UNCHANGED <<variant, env, request, backendUrl, headers, body, calls,
                   outbound, res, response>>

\* the request fetch sends for (backendUrl, { method, headers, body })
FetchArgs ==
    [url |-> backendUrl, method |-> request.method, headers |-> headers,
     body |-> IF body.present THEN SomeBody(Utf8Encode(body.data)) ELSE NoBody]

\* await fetch(...) resolves with an upstream response
FetchResolve ==
    /\ pc = "fetch"
    /\ UrlValid(backendUrl)
    /\ calls' = calls + 1
    /\ outbound' = FetchArgs
    /\ \E r \in UpstreamResponses : res' = r
    /\ pc' = "res_text"
    /\ UNCHANGED <<variant, env, request, backendUrl, headers, body, rejection,
                   response>>

\* await fetch(...) rejects: the URL does not parse, or the connection fails
FetchReject ==
    /\ pc = "fetch"
    /\ calls' = calls + 1
    /\ outbound' = FetchArgs
    /\ LET message == IF UrlValid(backendUrl) THEN "fetch failed"
                       ELSE "Invalid URL"
       IN  /\ rejection' = [at |-> "fetch", message |-> message]
           /\ Return(CatchResponse(variant, message, backendUrl))
    /\ UNCHANGED <<variant, env, request, backendUrl, headers, body, res>>

\* await res.text() resolves; the handler returns the upstream's answer
ResTextResolve ==
    /\ pc = "res_text"
    /\ Return([status |-> res.status,
               contentType |-> OrElse(res.contentType, ApplicationJson),
               kind |-> "body",
               text |-> Utf8Decode(res.body),
               payload |-> NoPayload])
    /\ UNCHANGED <<variant, env, request, backendUrl, headers, body, calls,
                   outbound, res, rejection>>

\* await res.text() rejects
ResTextReject ==
    /\ pc = "res_text"
    /\ rejection' = [at |-> "res.text", message |-> "terminated"]
    /\ Return(CatchResponse(variant, "terminated", backendUrl))
    /\ UNCHANGED <<variant, env, request, backendUrl, headers, body, calls,
                   outbound, res>>

Next ==
    \/ StartJs1
    \/ StartJs2
    \/ StartTs
    \/ ReadBodyResolve
    \/ ReadBodyReject
    \/ FetchResolve
    \/ FetchReject
    \/ ResTextResolve
    \/ ResTextReject

Spec == Init /\ [][Next]_vars

\* ------------------------------------------------------------- observers
\* the body the caller receives: a string body is sent UTF-8 encoded
ResponseBytes == Utf8Encode(response.text)

\* calls that went out to the network: fetch rejects an unparsable URL
\* before it connects
NetworkCalls == IF UrlValid(backendUrl) THEN calls ELSE 0

\* both required settings are present
ValidConfig == Truthy(backendBase) /\ Truthy(xKey)

TypeOK ==
    /\ variant \in Variants
    /\ pc \in {"start", "read_body", "fetch", "res_text", "done", "fault"}
    /\ calls \in 0..1

\* ------------------------------------------------------------- claims
\* the names of obj that are name n in some letter case
NamesOf(obj, n) == { k \in DOMAIN obj : Lower(k) = n }

\* the configured secret as a header value: no secret is the empty value
ConfiguredSecret == IF xKey = Undefined THEN <<>> ELSE xKey

\* the handler returned a configuration error
IsConfigError ==
    /\ response.status = 500
    /\ response.kind = "jsonBody"
    /\ response.payload.error = "Configuration Error"

\* C1 - override law: every request handed to fetch carries x-functions-key
\* exactly once, under one name, with the configured secret as its value,
\* whatever the client sent under that name in either letter case.
C1_OverrideLaw ==
    calls > 0 =>
        /\ NamesOf(outbound.headers, "x-functions-key") = {"x-functions-key"}
        /\ outbound.headers["x-functions-key"] = ConfiguredSecret

\* C1 witness: js2 forwarded a request whose client sent the key header in
\* both letter cases, and the backend got the secret.
C1_Witness ==
    /\ calls > 0
    /\ variant = "js2"
    /\ { l \in request.lines : Lower(l.name) = "x-functions-key" }
         = { l \in WireHeaderLines : Lower(l.name) = "x-functions-key" }
    /\ outbound.headers["x-functions-key"] = Secret

\* C2 - with the backend base URL empty or unset the handler returns 500
\* Configuration Error naming the backend URL (also when the secret is
\* missing too), and nothing goes out to the network.
C2_MissingBaseUrl ==
    ~Truthy(backendBase) =>
        /\ NetworkCalls = 0
        /\ pc \in {"done", "fault"} =>
              /\ pc = "done"
              /\ IsConfigError
              /\ response.payload.message = "VITE_BACKEND_BASE_URL is not set."

\* C3 - with the backend base URL present and the secret empty or unset the
\* handler returns 500 Configuration Error and fetch is never called.
C3_MissingSecret ==
    (Truthy(backendBase) /\ ~Truthy(xKey)) =>
        /\ calls = 0
        /\ pc \in {"done", "fault"} => (pc = "done" /\ IsConfigError)

\* C4 - with a valid configuration, when fetch or res.text() rejects the
\* handler returns 502 Proxy Connection Error whose payload holds the error's
\* message and the attempted backend URL.
C4_UpstreamFailure ==
    (ValidConfig /\ rejection.at \in {"fetch", "res.text"}) =>
        /\ pc = "done"
        /\ response.status = 502
        /\ response.kind = "jsonBody"
        /\ response.payload.error = "Proxy Connection Error"
        /\ response.payload.message = rejection.message
        /\ response.payload.backendUrl = backendUrl

\* the upstream sent no content type: no header, or one with no value
SentNoContentType == res.contentType \in {Undefined, <<>>}

\* C5 - with a valid configuration, when the upstream exchange completes the
\* caller gets the upstream status, the upstream body byte for byte, and the
\* upstream content-type, or application/json when the upstream sent none.
C5_Passthrough ==
    (ValidConfig /\ pc = "done" /\ calls = 1 /\ rejection.at = "none") =>
        /\ response.status = res.status
        /\ response.kind = "body"
        /\ ResponseBytes = res.body
        /\ response.contentType =
              IF SentNoContentType THEN ApplicationJson ELSE res.contentType

\* C6 - the request handed to fetch has no body for GET and HEAD, and the
\* inbound body byte for byte for every other method.
C6_BodyByMethod ==
    calls > 0 =>
        IF request.method \in {"GET", "HEAD"}
        THEN outbound.body = NoBody
        ELSE outbound.body = SomeBody(request.body)

\* C7 - the request handed to fetch has no host header in any letter case,
\* and has every other inbound header but x-functions-key with its value.
C7_HeaderForwarding ==
    calls > 0 =>
        /\ NamesOf(outbound.headers, "host") = {}
        /\ \A n \in DOMAIN HeadersOf(request.lines) \ {"host", "x-functions-key"} :
              /\ n \in DOMAIN outbound.headers
              /\ outbound.headers[n] = HeadersOf(request.lines)[n]

\* C8 - with a valid configuration the backend URL is base + "/" + path, then
\* nothing when the query is empty, and "?" + an encoding that parses back to
\* the query when it is not.
C8_UrlConstruction ==
    (ValidConfig /\ backendUrl # Undefined) =>
        LET prefix == backendBase \o <<"/">>
                      \o (IF request.path = Undefined THEN <<>> ELSE request.path)
            rest   == SubSeq(backendUrl, Len(prefix) + 1, Len(backendUrl))
            q      == request.query.pairs
        IN  /\ Len(backendUrl) >= Len(prefix)
            /\ SubSeq(backendUrl, 1, Len(prefix)) = prefix
            /\ IF q = <<>> THEN rest = <<>>
               ELSE /\ Head(rest) = "?"
                    /\ ParseQuery(Tail(rest)) = q

\* C9 - single attempt: fetch is called at most once; exactly once by the time
\* the handler ends with a valid configuration, never when it answers with a
\* configuration error, and not again after a rejection.
C9_SingleAttempt ==
    /\ calls <= 1
    /\ (ValidConfig /\ pc \in {"done", "fault"}) => calls = 1
    /\ (pc = "done" /\ IsConfigError) => calls = 0
    /\ (rejection.at # "none") => pc \in {"done", "fault"}

\* C10 - the handler never ends in an unhandled fault: once it has ended it
\* has returned a status code with a text or JSON body.
C10_AlwaysResponds ==
    /\ pc # "fault"
    /\ pc = "done" => (response.status > 0 /\ response.kind \in {"body", "jsonBody"})

\* ------------------------------------------------------------- per handler
\* What the js2 handler (index.js 107-179) alone does for the four claims
\* its two predecessors break.
\* js2 answers a missing backend URL with 500 Configuration Error
Js2_MissingBaseUrl == variant = "js2" => C2_MissingBaseUrl
\* js2 answers a missing secret with 500 Configuration Error
Js2_MissingSecret == variant = "js2" => C3_MissingSecret
\* js2 answers an upstream failure with 502 Proxy Connection Error
Js2_UpstreamFailure == variant = "js2" => C4_UpstreamFailure
\* js2 forwards every inbound header but host
Js2_HeaderForwarding == variant = "js2" => C7_HeaderForwarding

\* What every handler does, where the claim asks for more.
\* the URL always ends in "?" + the serialised query, which parses back
UrlWithQueryMark ==
    backendUrl # Undefined =>
        /\ backendUrl = ToStr(backendBase) \o <<"/">> \o path(request) \o <<"?">>
                        \o SearchParamsToString(request.query.pairs)
        /\ ParseQuery(QueryPortion(backendUrl)) = request.query.pairs
\* bodies pass through decoded and re-encoded
BodyReencoded ==
    /\ (calls > 0 /\ request.method \notin {"GET", "HEAD"}) =>
           outbound.body = SomeBody(Utf8Encode(Utf8Decode(request.body)))
    /\ (pc = "done" /\ calls = 1 /\ rejection.at = "none") =>
           /\ response.status = res.status
           /\ ResponseBytes = Utf8Encode(Utf8Decode(res.body))
           /\ response.contentType = OrElse(res.contentType, ApplicationJson)
\* at most one fetch, and a fault only from request.text()
SingleFetch ==
    /\ calls <= 1
    /\ pc = "fault" => (rejection.at = "request.text" /\ calls = 0)
    /\ (pc = "done" /\ response.kind = "body" /\ response.status # 200) => calls = 1

====
